---------------------------- MODULE Spec2Model ----------------------------
(***************************************************************************)
(* Model of the Bbox orchestration engine (src/src/bbox.ts): the module /  *)
(* service registry, dependency expansion of a start request, the staged   *)
(* state queue of a context and its application by executeStaged, the      *)
(* build and migration bookkeeping and value resolution.                    *)
(*                                                                         *)
(* The program is single threaded: one top-level operation runs at a time. *)
(* An operation is split at its awaits into steps driven by pc, so that    *)
(* the state between two effects is a state of the model.                  *)
(***************************************************************************)
EXTENDS Integers, Sequences, FiniteSets, TLC

(***************************************************************************)
(* Bounds.                                                                 *)
(***************************************************************************)
\* deepest nesting of stageStartDependenciesIfNeeded calls that is followed
MaxDepth == 4
\* most identifiers handed to one provideValues call
MaxValues == 2

(***************************************************************************)
(* JavaScript values, as far as the truthiness tests of provideValue see   *)
(* them: a type tag and the printed value.                                 *)
(***************************************************************************)
Undefined == [t |-> "undefined", v |-> "undefined"]
Num(v) == [t |-> "number", v |-> v]
Bool(v) == [t |-> "boolean", v |-> v]
Str(v) == [t |-> "string", v |-> v]

\* JavaScript ToBoolean, as applied by `a && b`, `!a` and `if (a)`
Truthy(x) ==
    /\ x.t # "undefined"
    /\ ~(x.t = "number" /\ x.v = "0")
    /\ ~(x.t = "boolean" /\ x.v = "false")
    /\ ~(x.t = "string" /\ x.v = "")

\* obj[key] on a plain object: undefined when the key is absent
Lookup(obj, key) == IF key \in DOMAIN obj THEN obj[key] ELSE Undefined

EmptyObject == [k \in {} |-> Undefined]

Range(s) == {s[i] : i \in 1..Len(s)}

(***************************************************************************)
(* Migration ids are strings; a string is the sequence of its code units.  *)
(***************************************************************************)
RECURSIVE StrLess(_, _)
\* a < b for two strings, as Array.prototype.sort without a comparator
\* orders them (code unit by code unit, a proper prefix first)
StrLess(a, b) ==
    IF a = <<>> THEN b # <<>>
    ELSE IF b = <<>> THEN FALSE
    ELSE IF Head(a) < Head(b) THEN TRUE
    ELSE IF Head(a) > Head(b) THEN FALSE
    ELSE StrLess(Tail(a), Tail(b))

RECURSIVE InsertSorted(_, _)
InsertSorted(x, s) ==
    IF s = <<>> THEN <<x>>
    ELSE IF StrLess(x, Head(s)) THEN <<x>> \o s
    ELSE <<Head(s)>> \o InsertSorted(x, Tail(s))

SortNone(s) == s

RECURSIVE Sort(_)
\* Array.prototype.sort() on an array of strings
Sort(s) == IF s = <<>> THEN <<>> ELSE InsertSorted(Head(s), Sort(Tail(s)))

\* nothing is taken out of the array
differenceKeepAll(array, values) == array

\* lodash difference(array, values): the elements of array not in values,
\* in the order of array
difference(array, values) == SelectSeq(array, LAMBDA x : x \notin Range(values))

(***************************************************************************)
(* The registry: the modules and services discovered for one run.  The     *)
(* names are fixed; the dependency declarations and the module specs are   *)
(* drawn from Registries by Init.                                          *)
(***************************************************************************)
\* this.modules, in discovery order
ModuleOrder == <<"m1", "m2">>
Modules == Range(ModuleOrder)
Services == {"a", "b", "c"}
\* a name that no module and no service has
Missing == "x"
ModuleNames == Modules \cup {Missing}
ServiceNames == Services \cup {Missing}

\* the three migration ids "2", "10", "1" in declaration order
Mig2 == <<2>>
Mig10 == <<1, 0>>
Mig1 == <<1>>

NoMigrations == [defined |-> FALSE, ids |-> <<>>]
Migrations(ids) == [defined |-> TRUE, ids |-> ids]

\* ServiceSpec.values of each service
ServiceValues ==
    [s \in Services |->
        IF s = "a"
        THEN [port |-> Num("8080"), zero |-> Num("0"), flag |-> Bool("false"),
              empty |-> Str("")]
        ELSE EmptyObject]

\* ServiceSpec.valueProviders of each service (runnable command strings)
ServiceValueProviders ==
    [s \in Services |->
        IF s = "a" THEN [url |-> Str("print-url"), zero |-> Str("print-zero")]
        ELSE IF s = "c" THEN [url |-> Str("print-url")]
        ELSE EmptyObject]

Deps(a, b, c) == [s \in Services |-> IF s = "a" THEN a ELSE IF s = "b" THEN b ELSE c]
Owner(a, b, c) == Deps(a, b, c)
PerModule(x, y) == [m \in Modules |-> IF m = "m1" THEN x ELSE y]

ThreeMigrations == Migrations(<<Mig2, Mig10, Mig1>>)

Registries ==
    { \* chain a -> b -> c, two modules
      [owner |-> Owner("m1", "m1", "m2"),
       dependencies |-> Deps(<<"b">>, <<"c">>, <<>>),
       build |-> PerModule(TRUE, FALSE),
       migrations |-> PerModule(ThreeMigrations, NoMigrations)],
      \* diamond: a -> b, c and b -> c
      [owner |-> Owner("m1", "m2", "m2"),
       dependencies |-> Deps(<<"b", "c">>, <<"c">>, <<>>),
       build |-> PerModule(TRUE, TRUE),
       migrations |-> PerModule(Migrations(<<>>), Migrations(<<Mig10, Mig1>>))],
      \* a dependency that names no service
      [owner |-> Owner("m1", "m1", "m2"),
       dependencies |-> Deps(<<"c", Missing>>, <<>>, <<>>),
       build |-> PerModule(FALSE, TRUE),
       migrations |-> PerModule(Migrations(<<Mig1>>), NoMigrations)],
      \* a cycle a -> b -> a, and c depending on itself
      [owner |-> Owner("m1", "m2", "m2"),
       dependencies |-> Deps(<<"b">>, <<"a">>, <<"c">>),
       build |-> PerModule(TRUE, FALSE),
       migrations |-> PerModule(NoMigrations, Migrations(<<Mig2, Mig1>>))],
      \* a name of no service ahead of a dependency that depends on itself
      [owner |-> Owner("m1", "m2", "m2"),
       dependencies |-> Deps(<<Missing, "b">>, <<"b">>, <<>>),
       build |-> PerModule(FALSE, TRUE),
       migrations |-> PerModule(NoMigrations, NoMigrations)] }

(***************************************************************************)
(* State.                                                                  *)
(***************************************************************************)
VARIABLES
    reg,            \* the registry (this.modules): fixed after Init
    state,          \* module.state of every module, in memory
    saved,          \* module.state as last written by fileManager.saveState
    op,             \* the top-level operation in progress (or the last one)
    pc,             \* where that operation is
    stagedStates,   \* ctx.stagedStates of the operation's context
    idx,            \* position of executeStaged's loop in ctx.stagedStates
    stack,          \* active stageStartDependenciesIfNeeded calls
    diff,           \* runMigrate: the pending ids still to apply
    cur,            \* provideValues: position in the identifiers
    log,            \* effects of the operation, in the order applied
    result,         \* how the operation ended
    pre,            \* state and saved when the operation began
    prev            \* the operation before this one and how it ended

vars == <<reg, state, saved, op, pc, stagedStates, idx, stack, diff, cur, log,
          result, pre, prev>>

(***************************************************************************)
(* Registry lookups.                                                       *)
(***************************************************************************)
NoError == [kind |-> "none", name |-> "", known |-> <<>>, ident |-> <<>>]
Error(kind, name, known) == [kind |-> kind, name |-> name, known |-> known, ident |-> <<>>]

\* the services of module m (Object.values(module.services))
ServicesOf(r, m) == {s \in Services : r.owner[s] = m}

\* getModule: the module of that name, or an error whose message lists the
\* names of all discovered modules
getModule(r, name) ==
    IF name \in Modules
    THEN [found |-> TRUE, module |-> name, error |-> NoError]
    ELSE [found |-> FALSE, module |-> "",
          error |-> Error("ModuleNotFound", name, ModuleOrder)]

\* getService: the first module, in discovery order, with a service of that
\* name; the error message carries the requested name only
getService(r, serviceName) ==
    LET owners == SelectSeq(ModuleOrder,
                    LAMBDA m : \E s \in ServicesOf(r, m) : s = serviceName)
    IN  IF owners # <<>>
        THEN [found |-> TRUE, module |-> Head(owners), service |-> serviceName,
              error |-> NoError]
        ELSE [found |-> FALSE, module |-> "", service |-> "",
              error |-> Error("ServiceNotFound", serviceName, <<>>)]

(***************************************************************************)
(* Migration tracker.                                                      *)
(***************************************************************************)
\* every declared id counts as pending
getAllMigrations(migs, st) ==
    IF ~migs.defined THEN <<>> ELSE Sort(migs.ids)

\* getNotAppliedMigrations(module), for module spec migrations `migs` and
\* module state `st`
getNotAppliedMigrations(migs, st) ==
    IF ~migs.defined THEN <<>>
    ELSE LET migrationIds == Sort(migs.ids)
         IN  difference(migrationIds, st.ranMigrations)

(***************************************************************************)
(* Staging.  A staged change is a partial module state or a partial        *)
(* service state; an absent field is "undefined".                          *)
(***************************************************************************)
ModuleChange(m, built, ranAll) ==
    [module |-> m, service |-> "", built |-> built, ranAllMigrations |-> ranAll,
     processStatus |-> "undefined"]
ServiceChange(s, status) ==
    [module |-> "", service |-> s, built |-> "undefined",
     ranAllMigrations |-> "undefined", processStatus |-> status]

stageServiceStateFront(q, s, status) == <<ServiceChange(s, status)>> \o q

stageServiceState(q, s, status) == Append(q, ServiceChange(s, status))

stageModuleState(q, m, built, ranAll) == Append(q, ModuleChange(m, built, ranAll))

\* the build change staged whatever the module's state
stageBuildAlways(r, st, q, m) == stageModuleState(q, m, "true", "undefined")

stageBuildIfNeeded(r, st, q, m) ==
    IF st[m].built \/ ~r.build[m] THEN q
    ELSE stageModuleState(q, m, "true", "undefined")

stageMigrationsAlways(r, st, q, m) == stageModuleState(q, m, "undefined", "true")

stageMigrationsIfNeeded(r, st, q, m) ==
    LET migrations == getNotAppliedMigrations(r.migrations[m], st[m])
    IN  IF Len(migrations) = 0 THEN q
        ELSE stageModuleState(q, m, "undefined", "true")

stageStartFirst(r, st, q, s) ==
    LET m == r.owner[s]
        q0 == stageServiceState(q, s, "Online")
        q1 == stageBuildIfNeeded(r, st, q0, m)
    IN  stageMigrationsIfNeeded(r, st, q1, m)

\* stageStart(service): build, then migrations, of the owning module, then
\* the service going online
stageStart(r, st, q, s) ==
    LET m == r.owner[s]
        q1 == stageBuildIfNeeded(r, st, q, m)
        q2 == stageMigrationsIfNeeded(r, st, q1, m)
    IN  stageServiceState(q2, s, "Online")

(***************************************************************************)
(* Effects.                                                                *)
(***************************************************************************)
\* one entry of the log: the effect, what it was applied to, the migration
\* id (for a migration) and whether it succeeded
Event(e, n, id, ok) == [e |-> e, n |-> n, id |-> id, ok |-> ok]

\* nothing is written
saveStateNever(sv, st, m) == sv

\* fileManager.saveState(module): the module's state becomes the saved one
saveState(sv, st, m) == [sv EXCEPT ![m] = st[m]]

\* the saveState call itself, as an entry of the log
Saved(m) == Event("saveState", m, <<>>, TRUE)

EmptyState == [ranMigrations |-> <<>>, ranAllMigrations |-> FALSE, built |-> FALSE]

Idle == [kind |-> "none", target |-> "", idents |-> <<>>]
NoResult == [status |-> "none", error |-> NoError, values |-> <<>>]

Init ==
    /\ reg \in Registries
    /\ state = [m \in Modules |-> EmptyState]
    /\ saved = [m \in Modules |-> EmptyState]
    /\ op = Idle
    /\ pc = "idle"
    /\ stagedStates = <<>>
    /\ idx = 1
    /\ stack = <<>>
    /\ diff = <<>>
    /\ cur = 1
    /\ log = <<>>
    /\ result = NoResult
    /\ pre = [state |-> state, saved |-> saved]
    /\ prev = [kind |-> "none", target |-> "", status |-> "none"]

(***************************************************************************)
(* Top-level operations.  Each begins on a context of its own, with an     *)
(* empty ctx.stagedStates: the caller hands one Ctx to each invocation.    *)
(* provideValues is the one place where several executeStaged calls share  *)
(* a context.                                                              *)
(***************************************************************************)
Finished == pc \in {"idle", "done", "failed"}

Operation(kind, target, idents) == [kind |-> kind, target |-> target, idents |-> idents]

\* the executeStaged call itself, as an entry of the log
ExecuteStagedCalled == Event("executeStaged", "", <<>>, TRUE)

\* what every operation does to the bookkeeping when it begins
Begin(o) ==
    /\ Finished
    /\ op' = o
    /\ pre' = [state |-> state, saved |-> saved]
    /\ prev' = [kind |-> op.kind, target |-> op.target, status |-> result.status]
    /\ idx' = 1
    /\ diff' = <<>>
    /\ cur' = 1
    /\ reg' = reg

\* the error rethrown as it is
WrappedNever(err) == err

\* provideValue rethrows every error with the requested identifier
Wrapped(err) ==
    IF op.kind \in {"value", "values"}
    THEN [err EXCEPT !.ident = op.idents[cur]]
    ELSE err

Failure(err) == [status |-> "error", error |-> err, values |-> <<>>]
Success(values) == [status |-> "ok", error |-> NoError, values |-> values]

\* the error is swallowed and the loop goes on
ThrowIgnored(err) ==
    /\ pc' = pc
    /\ result' = result

\* the operation throws err to its caller
Throw(err) ==
    /\ pc' = "failed"
    /\ result' = Failure(Wrapped(err))

stageBuildKeepsBuilt(st, q, m) ==
    [state |-> st, staged |-> stageModuleState(q, m, "true", "undefined")]

\* stageBuild(module): clears the built flag in memory and stages built
stageBuild(st, q, m) ==
    [state |-> [st EXCEPT ![m].built = FALSE],
     staged |-> stageModuleState(q, m, "true", "undefined")]

build(name) ==
    /\ Begin(Operation("build", name, <<>>))
    /\ stack' = <<>>
    /\ saved' = saved
    /\ LET found == getModule(reg, name)
       IN  IF ~found.found
           THEN /\ pc' = "failed"
                /\ result' = Failure(found.error)
                /\ UNCHANGED state
                /\ stagedStates' = <<>>
                /\ log' = <<>>
           ELSE LET staged == stageBuild(state, <<>>, found.module)
                IN  /\ state' = staged.state
                    /\ stagedStates' = staged.staged
                    /\ pc' = "exec"
                    /\ result' = NoResult
                    /\ log' = <<ExecuteStagedCalled>>

migrate(name) ==
    /\ Begin(Operation("migrate", name, <<>>))
    /\ stack' = <<>>
    /\ UNCHANGED <<state, saved>>
    /\ LET found == getModule(reg, name)
       IN  IF ~found.found
           THEN /\ pc' = "failed"
                /\ result' = Failure(found.error)
                /\ stagedStates' = <<>>
                /\ log' = <<>>
           ELSE /\ stagedStates' = stageMigrationsIfNeeded(reg, state, <<>>, found.module)
                /\ pc' = "exec"
                /\ result' = NoResult
                /\ log' = <<ExecuteStagedCalled>>

stop(name) ==
    /\ Begin(Operation("stop", name, <<>>))
    /\ stack' = <<>>
    /\ UNCHANGED <<state, saved>>
    /\ LET found == getService(reg, name)
       IN  IF ~found.found
           THEN /\ pc' = "failed"
                /\ result' = Failure(found.error)
                /\ stagedStates' = <<>>
                /\ log' = <<>>
           ELSE /\ stagedStates' = stageServiceState(<<>>, found.service, "Offline")
                /\ pc' = "exec"
                /\ result' = NoResult
                /\ log' = <<ExecuteStagedCalled>>

\* a call that starts past its first dependency
FrameSkipping(service) == [service |-> service, i |-> 2]

\* a call of stageStartDependenciesIfNeeded(service), about to look at the
\* i-th declared dependency
Frame(service) == [service |-> service, i |-> 1]

\* start, up to its call of stageStartDependenciesIfNeeded(service)
start(name) ==
    /\ Begin(Operation("start", name, <<>>))
    /\ UNCHANGED <<state, saved>>
    /\ stagedStates' = <<>>
    /\ log' = <<>>
    /\ LET found == getService(reg, name)
       IN  IF ~found.found
           THEN /\ pc' = "failed"
                /\ result' = Failure(found.error)
                /\ stack' = <<>>
           ELSE /\ pc' = "expand"
                /\ result' = NoResult
                /\ stack' = <<Frame(found.service)>>

\* list going through executeStaged
listExecuting ==
    /\ Begin(Operation("list", "", <<>>))
    /\ stack' = <<>>
    /\ UNCHANGED <<state, saved>>
    /\ stagedStates' = <<>>
    /\ log' = <<ExecuteStagedCalled>>
    /\ pc' = "done"
    /\ result' = Success(<<>>)

\* list: prints one line per service; stages and applies nothing
list ==
    /\ Begin(Operation("list", "", <<>>))
    /\ stack' = <<>>
    /\ UNCHANGED <<state, saved>>
    /\ stagedStates' = <<>>
    /\ log' = <<>>
    /\ pc' = "done"
    /\ result' = Success(<<>>)

\* run: one runnable of a module through runInteractive
run(name) ==
    /\ Begin(Operation("run", name, <<>>))
    /\ stack' = <<>>
    /\ UNCHANGED <<state, saved>>
    /\ stagedStates' = <<>>
    /\ LET found == getModule(reg, name)
       IN  IF ~found.found
           THEN /\ pc' = "failed"
                /\ result' = Failure(found.error)
                /\ log' = <<>>
           ELSE \E ok \in BOOLEAN :
                /\ log' = <<Event("runInteractive", found.module, <<>>, ok)>>
                /\ pc' = IF ok THEN "done" ELSE "failed"
                /\ result' = IF ok THEN Success(<<>>)
                             ELSE Failure(Error("RunnableFailed", found.module, <<>>))

(***************************************************************************)
(* Dependency expansion: stageStartDependenciesIfNeeded, one call or       *)
(* return per step.                                                        *)
(***************************************************************************)
Top == stack[Len(stack)]

\* an unknown dependency name is passed over
stageStartKnownDependencies ==
    /\ pc = "expand"
    /\ Top.i <= Len(reg.dependencies[Top.service])
    /\ LET serviceDependencyName == reg.dependencies[Top.service][Top.i]
           found == getService(reg, serviceDependencyName)
       IN  IF ~found.found
           THEN /\ stack' = [stack EXCEPT ![Len(stack)].i = @ + 1]
                /\ UNCHANGED <<pc, result>>
           ELSE /\ Len(stack) < MaxDepth
                /\ stack' = Append(stack, Frame(found.service))
                /\ UNCHANGED <<pc, result>>
    /\ UNCHANGED <<reg, state, saved, op, stagedStates, idx, diff, cur, log, pre, prev>>

\* the loop of the innermost call reaches its next dependency: getService,
\* then the recursive call
stageStartDependenciesIfNeeded ==
    /\ pc = "expand"
    /\ Top.i <= Len(reg.dependencies[Top.service])
    /\ LET serviceDependencyName == reg.dependencies[Top.service][Top.i]
           found == getService(reg, serviceDependencyName)
       IN  IF ~found.found
           THEN /\ Throw(found.error)
                /\ UNCHANGED stack
           ELSE /\ Len(stack) < MaxDepth
                /\ stack' = Append(stack, Frame(found.service))
                /\ UNCHANGED <<pc, result>>
    /\ UNCHANGED <<reg, state, saved, op, stagedStates, idx, diff, cur, log, pre, prev>>

\* the innermost call returns: its caller stages the start of the service
\* (stageStart) and, when the caller is start itself, calls executeStaged
stageStartDependenciesReturn ==
    /\ pc = "expand"
    /\ Top.i > Len(reg.dependencies[Top.service])
    /\ stagedStates' = stageStart(reg, state, stagedStates, Top.service)
    /\ IF Len(stack) = 1
       THEN /\ stack' = <<>>
            /\ pc' = "exec"
            /\ log' = Append(log, ExecuteStagedCalled)
       ELSE /\ stack' = [SubSeq(stack, 1, Len(stack) - 1)
                           EXCEPT ![Len(stack) - 1].i = @ + 1]
            /\ UNCHANGED <<pc, log>>
    /\ UNCHANGED <<reg, state, saved, op, idx, diff, cur, result, pre, prev>>

(***************************************************************************)
(* executeStaged: one staged change, or one migration, per step.           *)
(***************************************************************************)
Change == stagedStates[idx]

InLoop == pc = "exec" /\ idx <= Len(stagedStates)

\* executeStaged's test before runBuild
appliesBuildAlways(c, st) == c.module # "" /\ c.built = "true"

appliesBuild(c, st) == c.module # "" /\ c.built = "true" /\ ~st[c.module].built

\* the module part of the change asks for nothing more after the build
NoMigrationPart == Change.ranAllMigrations = "undefined"

\* the build runs and the built flag is left as it was
runBuildUnrecorded ==
    /\ InLoop
    /\ appliesBuild(Change, state)
    /\ LET m == Change.module
       IN  IF ~reg.build[m]
           THEN /\ Throw(Error("NoBuildAction", m, <<>>))
                /\ UNCHANGED <<state, saved, idx, log>>
           ELSE \E ok \in BOOLEAN :
                /\ log' = log \o <<Event("build", m, <<>>, ok)>>
                             \o (IF ok THEN <<Saved(m)>> ELSE <<>>)
                /\ IF ok
                   THEN /\ state' = state
                        /\ saved' = saveState(saved, state', m)
                        /\ idx' = idx + 1
                        /\ UNCHANGED <<pc, result>>
                   ELSE /\ Throw(Error("RunnableFailed", m, <<>>))
                        /\ UNCHANGED <<state, saved, idx>>
    /\ UNCHANGED <<reg, op, stagedStates, stack, diff, cur, pre, prev>>

runBuild ==
    /\ InLoop
    /\ appliesBuild(Change, state)
    /\ LET m == Change.module
       IN  IF ~reg.build[m]
           THEN /\ Throw(Error("NoBuildAction", m, <<>>))
                /\ UNCHANGED <<state, saved, idx, log>>
           ELSE \E ok \in BOOLEAN :
                /\ log' = log \o <<Event("build", m, <<>>, ok)>>
                             \o (IF ok THEN <<Saved(m)>> ELSE <<>>)
                /\ IF ok
                   THEN /\ state' = [state EXCEPT ![m].built = TRUE]
                        /\ saved' = saveState(saved, state', m)
                        /\ idx' = IF NoMigrationPart THEN idx + 1 ELSE idx
                        /\ UNCHANGED <<pc, result>>
                   ELSE /\ Throw(Error("RunnableFailed", m, <<>>))
                        /\ UNCHANGED <<state, saved, idx>>
    /\ UNCHANGED <<reg, op, stagedStates, stack, diff, cur, pre, prev>>

\* a staged build of a module that is built by now: nothing to apply
skipBuild ==
    /\ InLoop
    /\ Change.module # ""
    /\ ~appliesBuild(Change, state)
    /\ NoMigrationPart
    /\ idx' = idx + 1
    /\ UNCHANGED <<reg, state, saved, op, pc, stagedStates, stack, diff, cur, log,
                   result, pre, prev>>

\* runMigrate up to its loop
runMigrate ==
    /\ InLoop
    /\ Change.module # ""
    /\ ~appliesBuild(Change, state)
    /\ ~NoMigrationPart
    /\ LET m == Change.module
           pending == getNotAppliedMigrations(reg.migrations[m], state[m])
       IN  IF ~reg.migrations[m].defined
           THEN /\ Throw(Error("NoMigrations", m, <<>>))
                /\ UNCHANGED <<idx, diff>>
           ELSE IF Len(pending) = 0
           THEN /\ idx' = idx + 1
                /\ UNCHANGED <<pc, result, diff>>
           ELSE /\ pc' = "migrate"
                /\ diff' = pending
                /\ UNCHANGED <<idx, result>>
    /\ UNCHANGED <<reg, state, saved, op, stagedStates, stack, cur, log, pre, prev>>

pushNothing(ran, migId) == ran

\* module.state.ranMigrations.push(migId)
push(ran, migId) == Append(ran, migId)

\* one turn of runMigrate's loop: the migration's runnable, then the id is
\* recorded and the state saved; a failure is rethrown
runMigration ==
    /\ pc = "migrate"
    /\ diff # <<>>
    /\ LET m == Change.module
           migId == Head(diff)
       IN  \E ok \in BOOLEAN :
           /\ log' = log \o <<Event("migration", m, migId, ok)>>
                        \o (IF ok THEN <<Saved(m)>> ELSE <<>>)
           /\ IF ok
              THEN /\ state' = [state EXCEPT ![m].ranMigrations = push(@, migId)]
                   /\ saved' = saveState(saved, state', m)
                   /\ diff' = Tail(diff)
                   /\ UNCHANGED <<pc, result>>
              ELSE /\ Throw(Error("RunnableFailed", m, <<>>))
                   /\ UNCHANGED <<state, saved, diff>>
    /\ UNCHANGED <<reg, op, stagedStates, idx, stack, cur, pre, prev>>

\* the flag set before the batch is over
ranAllMigrationsEarly ==
    /\ pc = "migrate"
    /\ LET m == Change.module
       IN  /\ state' = [state EXCEPT ![m].ranAllMigrations = TRUE]
           /\ saved' = saveState(saved, state', m)
           /\ log' = Append(log, Saved(m))
    /\ pc' = "exec"
    /\ idx' = idx + 1
    /\ UNCHANGED <<reg, op, stagedStates, stack, diff, cur, result, pre, prev>>

\* after the loop: ranAllMigrations is set and saved, runMigrate returns
ranAllMigrations ==
    /\ pc = "migrate"
    /\ diff = <<>>
    /\ LET m == Change.module
       IN  /\ state' = [state EXCEPT ![m].ranAllMigrations = TRUE]
           /\ saved' = saveState(saved, state', m)
           /\ log' = Append(log, Saved(m))
    /\ pc' = "exec"
    /\ idx' = idx + 1
    /\ UNCHANGED <<reg, op, stagedStates, stack, diff, cur, result, pre, prev>>

\* a staged service state: startAndWait or stopAndWait
applyProcessStatus ==
    /\ InLoop
    /\ Change.service # ""
    /\ Change.processStatus # "undefined"
    /\ LET s == Change.service
       IN  IF Change.processStatus \notin {"Online", "Offline"}
           THEN /\ Throw(Error("UnhandledServiceProcessStatus", s, <<>>))
                /\ UNCHANGED <<idx, log>>
           ELSE \E ok \in BOOLEAN :
                /\ log' = Append(log,
                        Event(IF Change.processStatus = "Online"
                              THEN "startAndWait" ELSE "stopAndWait", s, <<>>, ok))
                /\ IF ok
                   THEN /\ idx' = idx + 1
                        /\ UNCHANGED <<pc, result>>
                   ELSE /\ Throw(Error("ProcessFailed", s, <<>>))
                        /\ UNCHANGED idx
    /\ UNCHANGED <<reg, state, saved, op, stagedStates, stack, diff, cur, pre, prev>>

ValueOperation == op.kind \in {"value", "values"}

\* the loop of executeStaged is over: back in the operation that called it
executeStagedReturns ==
    /\ pc = "exec"
    /\ idx > Len(stagedStates)
    /\ IF ValueOperation
       THEN /\ pc' = "run"
            /\ UNCHANGED result
       ELSE /\ pc' = "done"
            /\ result' = Success(<<>>)
    /\ UNCHANGED <<reg, state, saved, op, stagedStates, idx, stack, diff, cur, log,
                   pre, prev>>

(***************************************************************************)
(* Value resolution.                                                       *)
(***************************************************************************)
\* the identifiers asked for: "<service>.<provider>" as its segments
Identifiers ==
    { <<"a", "port">>, <<"a", "zero">>, <<"a", "flag">>, <<"a", "empty">>,
      <<"a", "url">>, <<"c", "url">>, <<"b", "url">>, <<Missing, "port">> }

\* const [serviceName, providerName] = valueName.split('.')
serviceNameOf(valueName) == valueName[1]
providerNameOf(valueName) == IF Len(valueName) >= 2 THEN valueName[2] ELSE "undefined"

\* serviceSpec.values && serviceSpec.values[providerName]
hasStaticValue(values, providerName) == Truthy(Lookup(values, providerName))

\* !serviceSpec.valueProviders || !serviceSpec.valueProviders[providerName]
lacksValueProvider(valueProviders, providerName) ==
    ~Truthy(Lookup(valueProviders, providerName))

\* provideValue returns v: value prints it, provideValues goes on with the
\* next identifier
Returns(v) ==
    IF cur = Len(op.idents)
    THEN /\ pc' = "done"
         /\ result' = Success(Append(result.values, v))
         /\ UNCHANGED cur
    ELSE /\ pc' = "provide"
         /\ result' = [result EXCEPT !.values = Append(@, v)]
         /\ cur' = cur + 1

value(valueName) ==
    /\ Begin(Operation("value", "", <<valueName>>))
    /\ UNCHANGED <<state, saved>>
    /\ stack' = <<>>
    /\ stagedStates' = <<>>
    /\ log' = <<>>
    /\ pc' = "provide"
    /\ result' = NoResult

provideValues(values) ==
    /\ Begin(Operation("values", "", values))
    /\ UNCHANGED <<state, saved>>
    /\ stack' = <<>>
    /\ stagedStates' = <<>>
    /\ log' = <<>>
    /\ pc' = "provide"
    /\ result' = NoResult

\* provideValue up to its call of executeStaged
provideValue ==
    /\ pc = "provide"
    /\ LET valueName == op.idents[cur]
           providerName == providerNameOf(valueName)
           found == getService(reg, serviceNameOf(valueName))
       IN  IF ~found.found
           THEN /\ Throw(found.error)
                /\ UNCHANGED <<cur, stagedStates, idx, log>>
           ELSE IF hasStaticValue(ServiceValues[found.service], providerName)
           THEN /\ Returns(ServiceValues[found.service][providerName])
                /\ UNCHANGED <<stagedStates, idx, log>>
           ELSE IF lacksValueProvider(ServiceValueProviders[found.service], providerName)
           THEN /\ Throw(Error("ValueProviderNotFound", providerName, <<>>))
                /\ UNCHANGED <<cur, stagedStates, idx, log>>
           ELSE /\ stagedStates' = stageBuildIfNeeded(reg, state, stagedStates, found.module)
                /\ idx' = 1
                /\ log' = Append(log, ExecuteStagedCalled)
                /\ pc' = "exec"
                /\ UNCHANGED <<cur, result>>
    /\ UNCHANGED <<reg, state, saved, op, stack, diff, pre, prev>>

\* provideValue after executeStaged: processManager.run of the provider
runValueProvider ==
    /\ pc = "run"
    /\ LET valueName == op.idents[cur]
           s == serviceNameOf(valueName)
       IN  \E ok \in BOOLEAN :
           /\ log' = Append(log, Event("run", s, <<>>, ok))
           /\ IF ok
              THEN Returns(Str("output"))
              ELSE /\ Throw(Error("RunnableFailed", s, <<>>))
                   /\ UNCHANGED cur
    /\ UNCHANGED <<reg, state, saved, op, stagedStates, idx, stack, diff, pre, prev>>

(***************************************************************************)
(* The specification.                                                      *)
(***************************************************************************)
\* the identifiers of a provideValues call: a static value, a provider of
\* each module's service
ListIdentifiers == { <<"a", "port">>, <<"a", "url">>, <<"c", "url">> }

ValueLists == UNION {[1..n -> ListIdentifiers] : n \in 1..MaxValues}

Next ==
    \/ \E name \in ModuleNames : build(name)
    \/ \E name \in ModuleNames : migrate(name)
    \/ \E name \in ServiceNames : start(name)
    \/ \E name \in ServiceNames : stop(name)
    \/ \E valueName \in Identifiers : value(valueName)
    \/ \E values \in ValueLists : provideValues(values)
    \/ list
    \/ \E name \in ModuleNames : run(name)
    \/ stageStartDependenciesIfNeeded
    \/ stageStartDependenciesReturn
    \/ runBuild
    \/ skipBuild
    \/ runMigrate
    \/ runMigration
    \/ ranAllMigrations
    \/ applyProcessStatus
    \/ executeStagedReturns
    \/ provideValue
    \/ runValueProvider

Spec == Init /\ [][Next]_vars

(***************************************************************************)
(* Reading the log and the dependency declarations.                        *)
(***************************************************************************)
\* the entries of the log for one kind of effect, in order
Effects(kind) == SelectSeq(log, LAMBDA e : e.e = kind)

\* the positions of the log that hold an effect of that kind
Positions(kind) == {i \in 1..Len(log) : log[i].e = kind}

Names(events) == [i \in 1..Len(events) |-> events[i].n]

DirectDeps(r, s) == Range(r.dependencies[s]) \cap Services

RECURSIVE Reach(_, _, _)
Reach(r, S, n) ==
    IF n = 0 THEN S
    ELSE Reach(r, S \cup UNION {DirectDeps(r, x) : x \in S}, n - 1)

\* every service that s depends on, directly or not
TransDeps(r, s) == Reach(r, DirectDeps(r, s), Cardinality(Services))

Acyclic(r) == \A s \in Services : s \notin TransDeps(r, s)

ChainDeclared == reg.dependencies = Deps(<<"b">>, <<"c">>, <<>>)

Completed(kind) == op.kind = kind /\ pc = "done"

(***************************************************************************)
(* C1: for an acyclic dependency declaration, start(S) invokes             *)
(* startAndWait for every service S transitively depends on before each of *)
(* its dependents, and for S itself last; for the chain a -> b -> c the    *)
(* order is c, b, a.                                                        *)
(***************************************************************************)
C1_StartOrder ==
    (op.kind = "start" /\ Acyclic(reg)) =>
        LET starts == Effects("startAndWait")
        IN  /\ \A j \in 1..Len(starts) :
                  \A d \in TransDeps(reg, starts[j].n) :
                      \E i \in 1..(j - 1) : starts[i].n = d /\ starts[i].ok
            /\ pc = "done" =>
                  /\ starts # <<>>
                  /\ starts[Len(starts)].n = op.target
                  /\ \A i \in 1..(Len(starts) - 1) : starts[i].n # op.target
                  /\ Range(Names(starts)) = TransDeps(reg, op.target) \cup {op.target}
            /\ (pc = "done" /\ ChainDeclared /\ op.target = "a") =>
                  Names(starts) = <<"c", "b", "a">>

C1_Witness ==
    /\ Completed("start")
    /\ ChainDeclared
    /\ op.target = "a"
    /\ Names(Effects("startAndWait")) = <<"c", "b", "a">>

(***************************************************************************)
(* C2: during a start operation the effects for one service apply in the   *)
(* order build, migrate, start: when startAndWait is invoked for a service *)
(* its module is built (if it declares a build action) and has no pending  *)
(* migrations, and every build and migration of the module came earlier.   *)
(***************************************************************************)
C2_BuildMigrateStart ==
    op.kind = "start" =>
        \A j \in Positions("startAndWait") :
            LET m == reg.owner[log[j].n]
            IN  /\ reg.build[m] => state[m].built
                /\ getNotAppliedMigrations(reg.migrations[m], state[m]) = <<>>
                /\ \A i \in Positions("build") \cup Positions("migration") :
                      log[i].n = m => i < j
                /\ \A i \in Positions("build"), k \in Positions("migration") :
                      (log[i].n = m /\ log[k].n = m) => i < k

C2_Witness ==
    /\ Completed("start")
    /\ \E i \in Positions("build"), k \in Positions("migration"),
          j \in Positions("startAndWait") :
          /\ log[i].n = reg.owner[log[j].n]
          /\ log[k].n = reg.owner[log[j].n]
          /\ i < k /\ k < j

\* how many times the build action of module m was run by the operation
BuildRuns(m) == Cardinality({i \in Positions("build") : log[i].n = m})

\* the operation is a successful build(m) that directly follows a
\* successful build(m)
SecondBuildDone ==
    /\ Completed("build")
    /\ prev.kind = "build"
    /\ prev.target = op.target
    /\ prev.status = "ok"

NothingPendingAtBegin ==
    /\ op.kind = "migrate"
    /\ op.target \in Modules
    /\ getNotAppliedMigrations(reg.migrations[op.target], pre.state[op.target]) = <<>>

C4_MigrateNothingPending ==
    NothingPendingAtBegin =>
        /\ pc \in {"exec", "done"}
        /\ stagedStates = <<>>
        /\ log = <<ExecuteStagedCalled>>
        /\ state = pre.state
        /\ saved = pre.saved

C4_Witness ==
    /\ NothingPendingAtBegin
    /\ pc = "done"
    /\ state[op.target].ranMigrations # <<>>
    /\ \E m \in Modules : ~reg.migrations[m].defined

(***************************************************************************)
(* C5: when the k-th pending migration fails during migrate, no later      *)
(* migration of the batch runs, ranMigrations is what it was before plus   *)
(* the first k-1 pending ids, ranAllMigrations is false and the next       *)
(* migrate starts at the failed migration; for the ids 1, 10, 2 with 10    *)
(* failing from the empty state, ranMigrations is exactly <<1>>.           *)
(***************************************************************************)
MigrationFailed ==
    /\ op.kind = "migrate"
    /\ pc = "failed"
    /\ log # <<>>
    /\ log[Len(log)].e = "migration"

\* the ids of the migrations the operation ran, in order
MigrationsRun == [i \in 1..Len(Effects("migration")) |-> Effects("migration")[i].id]

C5_MigrationFailure ==
    /\ MigrationFailed =>
          LET m == op.target
              pending == getNotAppliedMigrations(reg.migrations[m], pre.state[m])
              runs == Effects("migration")
              k == Len(runs)
          IN  /\ k <= Len(pending)
              /\ MigrationsRun = SubSeq(pending, 1, k)
              /\ \A i \in 1..k : runs[i].ok <=> i < k
              /\ state[m].ranMigrations =
                     pre.state[m].ranMigrations \o SubSeq(pending, 1, k - 1)
              /\ saved[m].ranMigrations = state[m].ranMigrations
              /\ ~state[m].ranAllMigrations
              /\ ~saved[m].ranAllMigrations
              /\ Head(getNotAppliedMigrations(reg.migrations[m], state[m])) = runs[k].id
              /\ (pending = <<Mig1, Mig10, Mig2>> /\ pre.state[m].ranMigrations = <<>>
                    /\ runs[k].id = Mig10) => state[m].ranMigrations = <<Mig1>>
    /\ (op.kind = "migrate" /\ Effects("migration") # <<>>) =>
          MigrationsRun[1] =
              Head(getNotAppliedMigrations(reg.migrations[op.target],
                                           pre.state[op.target]))

C5_Witness ==
    /\ MigrationFailed
    /\ pre.state[op.target].ranMigrations = <<>>
    /\ MigrationsRun = <<Mig1, Mig10>>
    /\ state[op.target].ranMigrations = <<Mig1>>

\* the pending migrations of module m in the current state
Pending(m) == getNotAppliedMigrations(reg.migrations[m], state[m])

(***************************************************************************)
(* C6: in every reachable state, getNotAppliedMigrations of a module is    *)
(* exactly the declared migration ids that are not in ranMigrations, in    *)
(* ascending lexicographic order without duplicates, and is empty when the *)
(* module declares no migrations.                                          *)
(***************************************************************************)
C6_PendingMigrations ==
    \A m \in Modules :
        /\ Range(Pending(m)) =
               IF reg.migrations[m].defined
               THEN Range(reg.migrations[m].ids) \ Range(state[m].ranMigrations)
               ELSE {}
        /\ \A i \in 1..(Len(Pending(m)) - 1) : StrLess(Pending(m)[i], Pending(m)[i + 1])
        /\ (reg.migrations[m].ids = <<Mig2, Mig10, Mig1>> /\ state[m].ranMigrations = <<>>)
              => Pending(m) = <<Mig1, Mig10, Mig2>>
        /\ (reg.migrations[m].ids = <<Mig2, Mig10, Mig1>> /\ state[m].ranMigrations = <<Mig1>>)
              => Pending(m) = <<Mig10, Mig2>>

C6_Witness ==
    \E m \in Modules :
        /\ reg.migrations[m].ids = <<Mig2, Mig10, Mig1>>
        /\ state[m].ranMigrations = <<Mig1>>
        /\ Pending(m) = <<Mig10, Mig2>>
        /\ \E n \in Modules : ~reg.migrations[n].defined /\ Pending(n) = <<>>

\* a static value is declared under the provider name of the identifier
StaticDeclared(valueName) ==
    /\ serviceNameOf(valueName) \in Services
    /\ providerNameOf(valueName) \in DOMAIN ServiceValues[serviceNameOf(valueName)]

(***************************************************************************)
(* C7, as claimed: value resolution of an identifier whose service spec    *)
(* has a static value under the provider name, whatever that value is      *)
(* (0, false and the empty string included), returns the static value and  *)
(* builds nothing, runs no provider and stages nothing.                    *)
(***************************************************************************)
C7_StaticValueReturned ==
    (op.kind = "value" /\ StaticDeclared(op.idents[1]) /\ pc # "provide") =>
        /\ pc = "done"
        /\ result.values =
               <<ServiceValues[serviceNameOf(op.idents[1])][providerNameOf(op.idents[1])]>>
        /\ log = <<>>
        /\ stagedStates = <<>>
        /\ state = pre.state

\* the positions of the log where the build action of module m was run
BuildsOf(m) == {i \in Positions("build") : log[i].n = m}

(***************************************************************************)
(* C8: resolving a provider-backed value runs the build action of the      *)
(* owning module exactly once before the provider runnable when the module *)
(* is not built and declares a build action, and not at all when it is     *)
(* built; provideValues builds each module at most once on its context and *)
(* applies no staged effect other than that build.                         *)
(***************************************************************************)
C8_BuildOnceBeforeProvider ==
    ValueOperation =>
        /\ \A j \in Positions("run") :
              LET m == reg.owner[log[j].n]
                  before == {i \in BuildsOf(m) : i < j}
              IN  /\ Cardinality(before) =
                         IF ~pre.state[m].built /\ reg.build[m] THEN 1 ELSE 0
                  /\ \A i \in before : log[i].ok
                  /\ reg.build[m] => state[m].built
        /\ \A m \in Modules :
              /\ Cardinality(BuildsOf(m)) <= 1
              /\ pre.state[m].built => BuildsOf(m) = {}
        /\ \A i \in 1..Len(log) :
              log[i].e \in {"executeStaged", "build", "saveState", "run"}
        /\ \A i \in 1..Len(stagedStates) :
              stagedStates[i] = ModuleChange(stagedStates[i].module, "true", "undefined")

C8_Witness ==
    /\ Completed("values")
    /\ Len(op.idents) >= 2
    /\ \E m \in Modules :
          /\ Cardinality(BuildsOf(m)) = 1
          /\ Cardinality({j \in Positions("run") : reg.owner[log[j].n] = m}) >= 2

(***************************************************************************)
(* C9, as claimed: a lookup of a module name or of a service name that     *)
(* matches nothing fails with an error that carries the full list of known *)
(* names, and leaves the registry and all state unchanged.                 *)
(***************************************************************************)
C9_NotFoundListsKnownNames ==
    /\ (pc = "failed" /\ result.error.kind = "ModuleNotFound") =>
          /\ Range(result.error.known) = Modules
          /\ state = pre.state /\ saved = pre.saved
    /\ (pc = "failed" /\ result.error.kind = "ServiceNotFound") =>
          /\ Range(result.error.known) = Services
          /\ state = pre.state /\ saved = pre.saved

\* executeStaged has returned to the operation, which is over
ExecuteStagedReturned ==
    /\ pc = "done"
    /\ op.kind \in {"build", "start", "stop", "migrate"}

(***************************************************************************)
(* C10, as claimed: every staged change is consumed exactly once: after    *)
(* executeStaged returns, the staged queue of the context is empty.        *)
(***************************************************************************)
C10_QueueDrained ==
    ExecuteStagedReturned => stagedStates = <<>>

(***************************************************************************)
(* What a start is to apply, read off the registry and a module state.     *)
(***************************************************************************)
RECURSIVE StartSequence(_, _, _)
RECURSIVE StartSequences(_, _, _)
\* the services whose start is staged by start(s), in staging order, when
\* every name is known and the expansion returns (n bounds the nesting)
StartSequence(r, s, n) ==
    IF n = 0 THEN <<>> ELSE StartSequences(r, r.dependencies[s], n - 1) \o <<s>>

StartSequences(r, names, n) ==
    IF names = <<>> THEN <<>>
    ELSE (IF Head(names) \in Services THEN StartSequence(r, Head(names), n) ELSE <<>>)
         \o StartSequences(r, Tail(names), n)

\* an effect on a module: its build, or one of its migrations
Build(m) == [e |-> "build", n |-> m, id |-> <<>>]
Migration(m, id) == [e |-> "migration", n |-> m, id |-> id]

\* the build and the migrations module m lacks in module state st
Lacking(r, st, m) ==
    (IF ~st[m].built /\ r.build[m] THEN <<Build(m)>> ELSE <<>>)
    \o [i \in 1..Len(getNotAppliedMigrations(r.migrations[m], st[m])) |->
            Migration(m, getNotAppliedMigrations(r.migrations[m], st[m])[i])]

RECURSIVE LackingAll(_, _, _)
LackingAll(r, st, services) ==
    IF services = <<>> THEN <<>>
    ELSE Lacking(r, st, r.owner[Head(services)]) \o LackingAll(r, st, Tail(services))

RECURSIVE FirstOccurrences(_, _)
FirstOccurrences(s, seen) ==
    IF s = <<>> THEN <<>>
    ELSE IF Head(s) \in seen THEN FirstOccurrences(Tail(s), seen)
    ELSE <<Head(s)>> \o FirstOccurrences(Tail(s), seen \cup {Head(s)})

\* the builds and migrations start(s) has to run from module state st, in
\* order
Outstanding(r, st, s) ==
    FirstOccurrences(
        LackingAll(r, st, StartSequence(r, s, Cardinality(Services) + 1)), {})

\* the builds and migrations the operation ran, in order, and those of
\* them that succeeded
ModuleEffects == SelectSeq(log, LAMBDA e : e.e \in {"build", "migration"})
Keys(events) == [i \in 1..Len(events) |-> [e |-> events[i].e, n |-> events[i].n, id |-> events[i].id]]
Succeeded == Range(Keys(SelectSeq(ModuleEffects, LAMBDA e : e.ok)))

IsPrefix(s, t) == Len(s) <= Len(t) /\ s = SubSeq(t, 1, Len(s))

\* the operation is a start that directly follows a failed start of the
\* same service
StartRetried ==
    /\ op.kind = "start"
    /\ prev.kind = "start"
    /\ prev.target = op.target
    /\ prev.status = "error"

(***************************************************************************)
(* C11: a start leaves, wherever it fails, exactly the builds and          *)
(* migrations it had not completed outstanding, in their order; the same   *)
(* start invoked again after the failure re-runs no build and no migration *)
(* that had completed and runs exactly the outstanding ones in that order. *)
(***************************************************************************)
C11_StartResumes ==
    (op.kind = "start" /\ op.target \in Services) =>
        LET before == Outstanding(reg, pre.state, op.target)
        IN  /\ Outstanding(reg, state, op.target) =
                   SelectSeq(before, LAMBDA k : k \notin Succeeded)
            /\ StartRetried =>
                  /\ IsPrefix(Keys(ModuleEffects), before)
                  /\ pc = "done" => Keys(ModuleEffects) = before
                  /\ \A i \in 1..Len(ModuleEffects) :
                        LET ev == ModuleEffects[i]
                        IN  IF ev.e = "build" THEN ~pre.state[ev.n].built
                            ELSE ev.id \notin Range(pre.state[ev.n].ranMigrations)

C11_Witness ==
    /\ StartRetried
    /\ pc = "done"
    /\ \E m \in Modules :
          /\ pre.state[m].built
          /\ pre.state[m].ranMigrations # <<>>
          /\ Migration(m, Mig2) \in Range(Keys(ModuleEffects))
          /\ Build(m) \notin Range(Keys(ModuleEffects))

\* how many times the operation has called executeStaged
Calls == Len(Effects("executeStaged"))

\* the operations that stage module or service changes on their context
StagingOperation == op.kind \in {"build", "start", "stop", "migrate"}

(***************************************************************************)
(* C12, as claimed: every top-level operation (start, stop, build,         *)
(* migrate, value, list, run) that completes has called executeStaged      *)
(* exactly once.                                                           *)
(***************************************************************************)
C12_ExactlyOnce ==
    pc = "done" => Calls = 1

(***************************************************************************)
(* C12, amended: build, start, stop and migrate call executeStaged at most *)
(* once, exactly once when they complete, before any effect and after all  *)
(* of their staging (the staged queue does not change after the call);     *)
(* list and run never call it; a value resolution calls it once for each   *)
(* identifier resolved through a provider and not for a static value.      *)
(***************************************************************************)
C12_ExecuteStagedCalls ==
    /\ [](/\ op.kind \in {"list", "run"} => Calls = 0
          /\ StagingOperation =>
                /\ Calls <= 1
                /\ pc = "done" => Calls = 1
                /\ log # <<>> => log[1] = ExecuteStagedCalled
          /\ ValueOperation =>
                /\ Len(Effects("run")) <= Calls
                /\ Calls <= cur
                /\ pc = "done" => Calls = Len(Effects("run"))
                /\ log # <<>> => log[1] = ExecuteStagedCalled)
    /\ [][(~Finished /\ StagingOperation /\ Calls = 1)
              => stagedStates' = stagedStates]_vars

C12_Witness ==
    /\ op.kind = "values"
    /\ pc = "done"
    /\ Calls = 1
    /\ Len(op.idents) = 2
    /\ prev.kind = "list"
    /\ prev.status = "ok"

\* module m has no pending migrations
NothingPending(st, m) == getNotAppliedMigrations(reg.migrations[m], st[m]) = <<>>

(***************************************************************************)
(* C13, as claimed: in every reachable state of every module,              *)
(* ranAllMigrations is true if and only if the module has no pending       *)
(* migrations.                                                             *)
(***************************************************************************)
C13_RanAllIffNothingPending ==
    \A m \in Modules : state[m].ranAllMigrations <=> NothingPending(state, m)

(***************************************************************************)
(* C13, amended: in every reachable state of every module, in memory and   *)
(* as saved, ranAllMigrations is true only if the module has no pending    *)
(* migrations, and it becomes true only in runMigrate after every          *)
(* migration of the batch succeeded; a module may have no pending          *)
(* migrations while ranAllMigrations is false.                             *)
(***************************************************************************)
C13_RanAllOnlyIfNothingPending ==
    /\ [](\A m \in Modules :
            /\ state[m].ranAllMigrations => NothingPending(state, m)
            /\ saved[m].ranAllMigrations => NothingPending(saved, m))
    /\ [][\A m \in Modules :
            (~state[m].ranAllMigrations /\ state'[m].ranAllMigrations) =>
                /\ pc = "migrate"
                /\ Change.module = m
                /\ reg.migrations[m].defined
                /\ state'[m].ranMigrations = state[m].ranMigrations
                /\ \A i \in 1..Len(diff) : \E j \in Positions("migration") :
                      /\ log[j].n = m
                      /\ log[j].id = diff[i]
                      /\ log[j].ok]_vars

C13_Witness ==
    /\ \E m \in Modules :
          /\ state[m].ranAllMigrations
          /\ Len(state[m].ranMigrations) = 3
          /\ ~pre.state[m].ranAllMigrations
          /\ pre.state[m].ranMigrations = <<>>
    /\ \E m \in Modules :
          /\ ~state[m].ranAllMigrations
          /\ NothingPending(state, m)
    /\ pc = "done"

\* the effects executeStaged applies
StagedEffects == {"build", "migration", "startAndWait", "stopAndWait"}

\* the staged changes of services among the first n entries of the queue
ServiceChanges(n) ==
    {j \in 1..n : j <= Len(stagedStates) /\ stagedStates[j].service # ""}

\* the process starts and stops the operation has invoked
ProcessEffects == Positions("startAndWait") \cup Positions("stopAndWait")

\* the last effect of the operation is a failed build or migration of m
ModuleEffectFailed(m) ==
    /\ pc = "failed"
    /\ log # <<>>
    /\ log[Len(log)].e \in {"build", "migration"}
    /\ log[Len(log)].n = m
    /\ ~log[Len(log)].ok

(***************************************************************************)
(* C14: when an effect applied by executeStaged fails, it is the last      *)
(* effect of the operation (no later staged change is applied, nothing is  *)
(* retried) and the operation ends with the error; the process starts and  *)
(* stops invoked are those of the staged changes before the failing one;   *)
(* when a build or a migration of a module fails during start,             *)
(* startAndWait is invoked neither for a service of that module nor for a  *)
(* service that depends on one.                                            *)
(***************************************************************************)
C14_FailureAborts ==
    /\ \A i \in 1..Len(log) :
          (log[i].e \in StagedEffects /\ ~log[i].ok) =>
              /\ i = Len(log)
              /\ pc = "failed"
              /\ result.status = "error"
              /\ result.error.kind # "none"
    /\ (StagingOperation /\ Calls = 1 /\ pc \in {"exec", "migrate", "failed"}) =>
          /\ idx <= Len(stagedStates) + 1
          /\ Cardinality(ProcessEffects) =
                Cardinality(ServiceChanges(idx - 1))
                + (IF pc = "failed" /\ log[Len(log)].e \in {"startAndWait", "stopAndWait"}
                   THEN 1 ELSE 0)
    /\ \A m \in Modules :
          (op.kind = "start" /\ ModuleEffectFailed(m)) =>
              \A s \in Services :
                  (reg.owner[s] = m
                     \/ \E d \in TransDeps(reg, s) : reg.owner[d] = m)
                  => s \notin Range(Names(Effects("startAndWait")))

\* the build of a dependency's module fails after another dependency was
\* started
C14_Witness ==
    /\ op.kind = "start"
    /\ op.target = "a"
    /\ ModuleEffectFailed("m1")
    /\ Names(Effects("startAndWait")) = <<"c">>
    /\ \E j \in idx + 1..Len(stagedStates) : stagedStates[j].service = "a"

\* the services start(s) goes through: s and what it transitively depends on
Expanded(r, s) == {s} \cup TransDeps(r, s)

\* a direct or transitive dependency name of s is not a declared service
UnknownDependency(r, s) ==
    \E d \in Expanded(r, s) : Range(r.dependencies[d]) \ Services # {}

\* the operation has applied nothing
NothingApplied == log = <<>> /\ state = pre.state /\ saved = pre.saved

(***************************************************************************)
(* C15: in a start, nothing is applied while dependencies are expanded and *)
(* changes staged; when a direct or transitive dependency name is unknown, *)
(* start never reaches executeStaged, and it fails having run no build, no *)
(* migration and no process start, with every module state and the saved   *)
(* state unchanged.                                                        *)
(***************************************************************************)
C15_StagingBeforeEffects ==
    (op.kind = "start") =>
        /\ pc = "expand" => NothingApplied
        /\ (pc = "failed" /\ result.error.kind = "ServiceNotFound") => NothingApplied
        /\ (op.target \in Services /\ UnknownDependency(reg, op.target)) =>
              /\ pc \in {"expand", "failed"}
              /\ NothingApplied
              /\ pc = "failed" => result.error.kind = "ServiceNotFound"

\* start fails on an unknown dependency after the changes of a known one
\* were staged
C15_Witness ==
    /\ op.kind = "start"
    /\ op.target = "a"
    /\ pc = "failed"
    /\ result.error.name = Missing
    /\ \E j \in 1..Len(stagedStates) : stagedStates[j].service = "c"
    /\ \E m \in Modules : pre.state[m].built
    /\ NothingApplied

RECURSIVE Expansion(_, _, _)
RECURSIVE ExpansionOfAll(_, _, _)
\* how stageStartDependenciesIfNeeded(s) ends: it "returns", it "throws" on
\* a name of no service, or it "recurses" without end; n bounds the nesting,
\* and a nesting deeper than the number of services repeats a service
Expansion(r, s, n) ==
    IF n = 0 THEN "recurses" ELSE ExpansionOfAll(r, r.dependencies[s], n - 1)

ExpansionOfAll(r, names, n) ==
    IF names = <<>> THEN "returns"
    ELSE IF Head(names) \notin Services THEN "throws"
    ELSE IF Expansion(r, Head(names), n) # "returns" THEN Expansion(r, Head(names), n)
    ELSE ExpansionOfAll(r, Tail(names), n)

ExpansionOf(s) == Expansion(reg, s, Cardinality(Services) + 1)

\* s is on a dependency cycle, or transitively depends on a service that is
ReachesCycle(r, s) == \E d \in Expanded(r, s) : d \in TransDeps(r, d)

Expanding == op.kind = "start" /\ op.target \in Services /\ pc = "expand"

(***************************************************************************)
(* C16, as claimed: expansion does not terminate when the target reaches a *)
(* dependency cycle: such a start stays in its expansion for ever.         *)
(***************************************************************************)
C16_CycleNeverTerminates ==
    (op.kind = "start" /\ op.target \in Services /\ ReachesCycle(reg, op.target))
        => pc = "expand"

(***************************************************************************)
(* C16, amended: expansion terminates for every target whose reachable     *)
(* dependency graph is acyclic, and for every target whose expansion meets *)
(* a name of no service before it re-enters a service (start then fails);  *)
(* it does not terminate when the expansion re-enters a service it is      *)
(* expanding: then another call is always pending, start never reaches     *)
(* executeStaged and no effect is ever applied.                            *)
(***************************************************************************)
C16_ExpansionTermination ==
    /\ [](Expanding =>
            /\ ~ReachesCycle(reg, op.target) => ExpansionOf(op.target) # "recurses"
            /\ ExpansionOf(op.target) # "recurses" => Len(stack) <= Cardinality(Services))
    /\ [](op.kind = "start" /\ op.target \in Services
            /\ ExpansionOf(op.target) = "recurses" =>
                /\ pc = "expand"
                /\ ReachesCycle(reg, op.target)
                /\ Calls = 0
                /\ NothingApplied
                /\ \/ Top.i > Len(reg.dependencies[Top.service])
                   \/ reg.dependencies[Top.service][Top.i] \in Services)
    /\ (Expanding /\ ExpansionOf(op.target) # "recurses") ~> (pc # "expand")

\* after a start that failed on a name of no service ahead of a cycle, a
\* start of the service on the cycle is nested as deep as the bound allows
C16_Witness ==
    /\ Expanding
    /\ ExpansionOf(op.target) = "recurses"
    /\ Len(stack) = MaxDepth
    /\ prev.kind = "start"
    /\ prev.target = "a"
    /\ prev.status = "error"
    /\ ReachesCycle(reg, "a")

(***************************************************************************)
(* The specification with the scheduler's guarantee: a pending call or     *)
(* return of the expansion is eventually run.                              *)
(***************************************************************************)
FairSpec ==
    /\ Spec
    /\ WF_vars(stageStartDependenciesIfNeeded)
    /\ WF_vars(stageStartDependenciesReturn)

\* the modules a build change is staged for on the operation's context
StagedBuilds ==
    {stagedStates[j].module : j \in {i \in 1..Len(stagedStates) :
                                        stagedStates[i].built = "true"}}

\* the operations that stage a build through stageBuildIfNeeded
BuildsIfNeeded == op.kind \in {"start", "value", "values"}

Requested == op.idents[cur]

\* the errors a value resolution ends with
ValueErrors == {"ServiceNotFound", "ValueProviderNotFound", "RunnableFailed"}

(***************************************************************************)
(* C18: every failure of a value resolution (unknown service, neither a    *)
(* static value nor a provider, failed build, failed provider run) reaches *)
(* the caller as an error carrying the requested identifier; a missing     *)
(* provider fails without staging a build and without running one.         *)
(***************************************************************************)
C18_ValueFailures ==
    /\ []((ValueOperation /\ pc = "failed") =>
            /\ result.status = "error"
            /\ result.error.kind \in ValueErrors
            /\ result.error.ident = Requested
            /\ result.error.kind = "ServiceNotFound" =>
                  serviceNameOf(Requested) \notin Services
            /\ (op.kind = "value" /\ result.error.kind = "ValueProviderNotFound") =>
                  /\ stagedStates = <<>>
                  /\ log = <<>>
                  /\ state = pre.state
            /\ (result.error.kind = "RunnableFailed") =>
                  /\ log # <<>>
                  /\ log[Len(log)].e \in {"build", "run"}
                  /\ ~log[Len(log)].ok)
    /\ [][(ValueOperation /\ pc' = "failed"
             /\ result'.error.kind = "ValueProviderNotFound") =>
                /\ pc = "provide"
                /\ stagedStates' = stagedStates
                /\ log' = log
                /\ state' = state
                /\ saved' = saved]_vars

\* the build staged for a provider fails
C18_Witness ==
    /\ op.kind = "value"
    /\ pc = "failed"
    /\ Requested = <<"a", "url">>
    /\ result.error.ident = <<"a", "url">>
    /\ log # <<>>
    /\ log[Len(log)].e = "build"
    /\ prev.kind = "value"
    /\ prev.status = "error"

\* the ids of the migrations of m whose runnable completed in the operation
Migrated(m) ==
    {log[i].id : i \in {j \in Positions("migration") : log[j].n = m /\ log[j].ok}}

(***************************************************************************)
(* C19: while migrations are applied, the module state is saved after each *)
(* successful migration and before the next migration's runnable starts:   *)
(* at every point the saved ranMigrations is the one in memory and         *)
(* contains every migration id whose runnable completed successfully.      *)
(***************************************************************************)
C19_SavedAfterEachMigration ==
    /\ \A m \in Modules :
          /\ saved[m].ranMigrations = state[m].ranMigrations
          /\ Migrated(m) \subseteq Range(saved[m].ranMigrations)
          /\ Range(saved[m].ranMigrations) =
                Range(pre.saved[m].ranMigrations) \cup Migrated(m)
    /\ \A i \in Positions("migration") :
          log[i].ok =>
              /\ i < Len(log)
              /\ log[i + 1] = Saved(log[i].n)

\* a start fails at the third migration of a module: the two before it are
\* saved
C19_Witness ==
    /\ op.kind = "start"
    /\ pc = "failed"
    /\ \E m \in Modules :
          /\ ModuleEffectFailed(m)
          /\ log[Len(log)].e = "migration"
          /\ pre.saved[m].ranMigrations = <<>>
          /\ Len(saved[m].ranMigrations) = 2
          /\ Cardinality(Migrated(m)) = 2

NoDuplicates(s) == \A i, j \in 1..Len(s) : s[i] = s[j] => i = j

\* the migration whose runnable completes successfully in this step, if any
MigrationCompletes(m, id) ==
    /\ Len(log') > 0
    /\ log' # log
    /\ \E i \in 1..Len(log') :
          /\ i > (IF Len(log') > Len(log) /\ SubSeq(log', 1, Len(log)) = log
                  THEN Len(log) ELSE 0)
          /\ log'[i] = Event("migration", m, id, TRUE)

(***************************************************************************)
(* C20: across any sequence of top-level operations with arbitrary         *)
(* runnable failures, ranMigrations only grows (the old list is a prefix   *)
(* of the new one), every id in it is a declared migration id, no id is in *)
(* it twice, and a migration's runnable completes successfully only when   *)
(* its id is not in ranMigrations and is then added: at most once.         *)
(***************************************************************************)
C20_RanMigrationsGrows ==
    /\ [](\A m \in Modules :
            /\ Range(state[m].ranMigrations) \subseteq Range(reg.migrations[m].ids)
            /\ NoDuplicates(state[m].ranMigrations)
            /\ NoDuplicates(saved[m].ranMigrations))
    /\ [][\A m \in Modules :
            /\ IsPrefix(state[m].ranMigrations, state'[m].ranMigrations)
            /\ IsPrefix(saved[m].ranMigrations, saved'[m].ranMigrations)
            /\ Len(state'[m].ranMigrations) <= Len(state[m].ranMigrations) + 1
            /\ \A id \in Range(reg.migrations[m].ids) :
                  MigrationCompletes(m, id) <=>
                      /\ id \notin Range(state[m].ranMigrations)
                      /\ state'[m].ranMigrations = Append(state[m].ranMigrations, id)]_vars

\* the last of a module's three migrations is recorded by an operation that
\* follows a failed one
C20_Witness ==
    /\ pc = "done"
    /\ prev.status = "error"
    /\ \E m \in Modules :
          /\ Len(state[m].ranMigrations) = 3
          /\ Len(pre.state[m].ranMigrations) = 2
          /\ Range(state[m].ranMigrations) = Range(reg.migrations[m].ids)

\* the entries of the staged queue that stage the build of m, and those
\* that stage its migrations
BuildEntries(m) ==
    {j \in 1..Len(stagedStates) :
        stagedStates[j].module = m /\ stagedStates[j].built = "true"}
MigrationEntries(m) ==
    {j \in 1..Len(stagedStates) :
        stagedStates[j].module = m /\ stagedStates[j].ranAllMigrations = "true"}

\* the runs of migration id of module m in the operation
MigrationsOf(m, id) == {i \in Positions("migration") : log[i].n = m /\ log[i].id = id}

(***************************************************************************)
(* C21: within one start operation, each module's build action runs at     *)
(* most once and each pending migration runs at most once, however many    *)
(* times the module's build and migration changes are staged: a staged     *)
(* entry whose work is done by an earlier entry applies nothing.           *)
(***************************************************************************)
C21_OncePerStart ==
    (op.kind = "start") =>
        \A m \in Modules :
            /\ Cardinality(BuildsOf(m)) <= 1
            /\ \A id \in Range(reg.migrations[m].ids) :
                  /\ Cardinality(MigrationsOf(m, id)) <= 1
                  /\ MigrationsOf(m, id) # {} =>
                        id \notin Range(pre.state[m].ranMigrations)
            /\ pc = "done" =>
                  /\ BuildEntries(m) # {} => Cardinality(BuildsOf(m)) = 1
                  /\ MigrationEntries(m) # {} =>
                        Range(reg.migrations[m].ids) \subseteq Range(state[m].ranMigrations)

\* a start of the diamond: the module of b and c is staged three times,
\* built once and migrated once
C21_Witness ==
    /\ op.kind = "start"
    /\ pc = "done"
    /\ \E m \in Modules :
          /\ Cardinality(BuildEntries(m)) = 3
          /\ Cardinality(MigrationEntries(m)) = 3
          /\ Cardinality(BuildsOf(m)) = 1
          /\ Len(Effects("migration")) = 2
          /\ Len(Effects("startAndWait")) = 4

\* the operation has returned or failed
Ended == pc \in {"done", "failed"}

(***************************************************************************)
(* C22, as claimed: whenever a top-level operation returns or fails, the   *)
(* saved state of every module equals its state in memory (built,          *)
(* ranMigrations, ranAllMigrations), provided they were equal when the     *)
(* operation began; a failed build leaves the built flag in memory and the *)
(* saved one at the same value.                                            *)
(***************************************************************************)
C22_SavedEqualsMemory ==
    (Ended /\ pre.state = pre.saved) => state = saved

=============================================================================
